---- MODULE Spec2Model ----
(***************************************************************************)
(* A model of execution/ai_news_digest.py: the enrichment -> scoring ->    *)
(* sort -> deduplication -> grouping pipeline of main(), with the thread   *)
(* pool of enrich_summaries and its 30 s as_completed deadline.            *)
(*                                                                         *)
(* Texts (titles, summaries, page fields) are sequences of one-character   *)
(* strings, so that len(), slicing, rfind() and lower() are computed as    *)
(* the code computes them.                                                 *)
(***************************************************************************)
EXTENDS Integers, Sequences, FiniteSets, TLC

VARIABLES
    articles,    \* main's all_articles: the list of record dicts
    pc,          \* main's position in the pipeline
    tasks,       \* enrich_summaries: future of each dispatched record (by index)
    collected,   \* futures already yielded by as_completed to the for loop
    deadline,    \* TRUE once the 30 s of as_completed(timeout=30) have elapsed
    exc,         \* the exception propagating out of main ("none" if none)
    before,      \* the records as they were when enrich_summaries was called
    unfinished,  \* the tasks queued or running at the moment the deadline elapsed
    scoreIdx,    \* main's loop index in "for article in all_articles" (scoring)
    digest,      \* main's articles = deduplicate_articles(all_articles)
    rerun,       \* deduplicate_articles applied to its own result
    html,        \* the sections format_html_email emits, in order
    text,        \* the sections format_plain_text emits, in order
    call,        \* the arguments of a call of truncate_summary
    returned     \* what that call returned: <<>> before it ran, <<value>> after

vars == <<articles, pc, tasks, collected, deadline, exc, before, unfinished,
          scoreIdx, digest, rerun, html, text, call, returned>>

----------------------------------------------------------------------------
(* Program constants *)

DefaultMaxLength == 280
SummaryBudget == 300
ParagraphMin == 100
ParagraphsTried == 3
MaxWorkers == 5
BatchCap == 20
MaxPerCategory == 5

CATEGORY_NEW_TECH == "New Technology"
CATEGORY_RESEARCH == "Research"
CATEGORY_INDUSTRY == "Industry & Macro"
CATEGORY_COMMUNITY == "Community Highlights"

Categories ==
    {CATEGORY_NEW_TECH, CATEGORY_RESEARCH, CATEGORY_INDUSTRY, CATEGORY_COMMUNITY}

RSS_FEEDS_NEWS ==
    {"TechCrunch AI", "VentureBeat AI", "The Verge AI", "Ars Technica AI",
     "MIT Tech Review", "Wired AI"}

high_quality_sources ==
    {"OpenAI Blog", "Anthropic Research", "Google AI Blog", "DeepMind Blog",
     "MIT Tech Review", "arXiv", "Papers With Code"}

\* The value of article["published"]: a datetime (in seconds), Python's None,
\* or no value at all (the key is missing from the dict).
Datetime(t) == [kind |-> "datetime", t |-> t]
None == [kind |-> "None", t |-> 0]
Absent == [kind |-> "absent", t |-> 0]

----------------------------------------------------------------------------
(* Texts *)

Min(a, b) == IF a <= b THEN a ELSE b
Max(a, b) == IF a >= b THEN a ELSE b

\* k copies of the text s, one after the other
Repeat(s, k) ==
    [i \in 1..(Max(k, 0) * Len(s)) |-> s[((i - 1) % Len(s)) + 1]]

\* Python's s[:n], negative n included
Prefix(s, n) ==
    IF n >= 0 THEN SubSeq(s, 1, Min(n, Len(s)))
    ELSE SubSeq(s, 1, Max(Len(s) + n, 0))

\* sample texts of n characters: words with blanks between them, and one
\* unbroken word
Word == <<"w", "o", "r", "d", " ">>
Prose(n) == Prefix(Repeat(Word, (n \div 5) + 1), n)
Solid(n) == Repeat(<<"x">>, n)

\* Python's s.rfind(c) for a one-character c: the last 0-based offset, or -1
RFind(s, c) ==
    LET hits == {i \in 1..Len(s) : s[i] = c}
    IN IF hits = {} THEN -1 ELSE (CHOOSE i \in hits : \A j \in hits : j <= i) - 1

Ellipsis == <<".", ".", ".">>

\* the arguments of truncate_summary(text, max_length), and the value of the
\* variable call while no call is observed
Call(t, max_length) == [text |-> t, max_length |-> max_length]
NoCall == Call(<<>>, 0)

\* truncate_summary returning text[:cut_point] at a sentence end, the
\* terminator left out
truncate_summary_exclusive(t, max_length) ==
    IF Len(t) = 0 \/ Len(t) <= max_length THEN t
    ELSE LET truncated == Prefix(t, max_length)
             last_period == RFind(truncated, ".")
             last_question == RFind(truncated, "?")
             last_exclaim == RFind(truncated, "!")
             cut_point == Max(last_period, Max(last_question, last_exclaim))
             last_space == RFind(truncated, " ")
         IN IF 2 * cut_point > max_length THEN Prefix(t, cut_point)
            ELSE IF last_space > 0 THEN Prefix(t, last_space) \o Ellipsis
            ELSE truncated \o Ellipsis

\* truncate_summary(text, max_length): cut_point > max_length * 0.5 is
\* 2 * cut_point > max_length in integers.
truncate_summary(t, max_length) ==
    IF Len(t) = 0 \/ Len(t) <= max_length THEN t
    ELSE LET truncated == Prefix(t, max_length)
             last_period == RFind(truncated, ".")
             last_question == RFind(truncated, "?")
             last_exclaim == RFind(truncated, "!")
             cut_point == Max(last_period, Max(last_question, last_exclaim))
             last_space == RFind(truncated, " ")
         IN IF 2 * cut_point > max_length THEN Prefix(t, cut_point + 1)
            ELSE IF last_space > 0 THEN Prefix(t, last_space) \o Ellipsis
            ELSE truncated \o Ellipsis

\* clean_html on a text without markup: re.sub(r'\s+', ' ', text).strip().
\* A blank is kept iff it follows a non-blank and a non-blank comes later.
\* Collapse gives the characters kept of s[lo..hi], by halves.
RECURSIVE Collapse(_, _, _, _)
Collapse(s, lo, hi, last) ==
    IF lo > hi THEN <<>>
    ELSE IF lo = hi
         THEN IF s[lo] # " " \/ (lo > 1 /\ s[lo - 1] # " " /\ lo < last)
              THEN <<s[lo]>> ELSE <<>>
         ELSE LET mid == (lo + hi) \div 2
              IN Collapse(s, lo, mid, last) \o Collapse(s, mid + 1, hi, last)

clean_html(html_text) ==
    IF Len(html_text) = 0 THEN <<>>
    ELSE LET solid == {i \in 1..Len(html_text) : html_text[i] # " "}
             last == IF solid = {} THEN 0
                     ELSE CHOOSE i \in solid : \A j \in solid : j <= i
         IN Collapse(html_text, 1, Len(html_text), last)

\* str.lower() on the letters the titles of the model use
LowerChar(c) ==
    CASE c = "A" -> "a"
      [] c = "B" -> "b"
      [] c = "C" -> "c"
      [] c = "D" -> "d"
      [] c = "E" -> "e"
      [] OTHER -> c

lower(s) == [i \in 1..Len(s) |-> LowerChar(s[i])]

----------------------------------------------------------------------------
(* difflib.SequenceMatcher(None, a, b).ratio(), without junk: isjunk is    *)
(* None, and the autojunk heuristic only acts on a b of 200 or more        *)
(* characters.  Offsets are 1-based and the ranges alo..ahi, blo..bhi are  *)
(* inclusive.                                                              *)

\* the length of the common run of a and b that starts at a[i], b[j]
RECURSIVE RunLength(_, _, _, _, _, _)
RunLength(a, b, i, j, ahi, bhi) ==
    IF i > ahi \/ j > bhi \/ a[i] # b[j] THEN 0
    ELSE 1 + RunLength(a, b, i + 1, j + 1, ahi, bhi)

\* find_longest_match: <<i, j, k>>, the longest block a[i..i+k-1] = b[j..j+k-1];
\* of those the one starting earliest in a, and of those earliest in b.
find_longest_match(a, b, alo, ahi, blo, bhi) ==
    LET starts == (alo..ahi) \X (blo..bhi)
        size(p) == RunLength(a, b, p[1], p[2], ahi, bhi)
        best == IF starts = {} THEN 0
                ELSE LET sizes == {size(p) : p \in starts}
                     IN CHOOSE k \in sizes : \A m \in sizes : m <= k
    IN IF best = 0 THEN <<alo, blo, 0>>
       ELSE LET longest == {p \in starts : size(p) = best}
                besti == CHOOSE i \in {p[1] : p \in longest} :
                             \A p \in longest : i <= p[1]
                bestj == CHOOSE j \in {p[2] : p \in {q \in longest : q[1] = besti}} :
                             \A p \in {q \in longest : q[1] = besti} : j <= p[2]
            IN <<besti, bestj, best>>

\* get_matching_blocks: the total size of the blocks found by matching the
\* longest block, then recursively the pieces to its left and to its right.
RECURSIVE MatchedChars(_, _, _, _, _, _)
MatchedChars(a, b, alo, ahi, blo, bhi) ==
    LET m == find_longest_match(a, b, alo, ahi, blo, bhi)
        i == m[1]
        j == m[2]
        k == m[3]
    IN IF k = 0 THEN 0
       ELSE k
            + (IF alo < i /\ blo < j
               THEN MatchedChars(a, b, alo, i - 1, blo, j - 1) ELSE 0)
            + (IF i + k <= ahi /\ j + k <= bhi
               THEN MatchedChars(a, b, i + k, ahi, j + k, bhi) ELSE 0)

\* ratio() = 2.0 * matches / length, or 1.0 when both are empty, as the
\* fraction <<numerator, denominator>>
ratio(a, b) ==
    IF Len(a) + Len(b) = 0 THEN <<1, 1>>
    ELSE <<2 * MatchedChars(a, b, 1, Len(a), 1, Len(b)), Len(a) + Len(b)>>

\* similarity > 0.6, for similarity = SequenceMatcher(None, title, seen).ratio()
IsSimilar(title, seen) ==
    LET r == ratio(title, seen) IN 10 * r[1] > 6 * r[2]

----------------------------------------------------------------------------
(* deduplicate_articles *)

\* the loop of deduplicate_articles from list index i on, with the lists
\* unique and seen_titles built so far
RECURSIVE DedupLoop(_, _, _, _)
DedupLoop(list, i, unique, seen_titles) ==
    IF i > Len(list) THEN unique
    ELSE LET article == list[i]
             title == lower(article.title)
             is_duplicate ==
                 \E n \in 1..Len(seen_titles) : IsSimilar(title, seen_titles[n])
         IN IF is_duplicate
            THEN DedupLoop(list, i + 1, unique, seen_titles)
            ELSE DedupLoop(list, i + 1, Append(unique, article),
                           Append(seen_titles, title))

\* a slip: the kept record is put at the front of unique
RECURSIVE DedupLoopPrepend(_, _, _, _)
DedupLoopPrepend(list, i, unique, seen_titles) ==
    IF i > Len(list) THEN unique
    ELSE LET article == list[i]
             title == lower(article.title)
             is_duplicate ==
                 \E n \in 1..Len(seen_titles) : IsSimilar(title, seen_titles[n])
         IN IF is_duplicate
            THEN DedupLoopPrepend(list, i + 1, unique, seen_titles)
            ELSE DedupLoopPrepend(list, i + 1, <<article>> \o unique,
                                  Append(seen_titles, title))

deduplicate_articles_prepend(list) == DedupLoopPrepend(list, 1, <<>>, <<>>)

\* a slip: similarity >= 0.6 instead of > 0.6
RECURSIVE DedupLoopLoose(_, _, _, _)
DedupLoopLoose(list, i, unique, seen_titles) ==
    IF i > Len(list) THEN unique
    ELSE LET article == list[i]
             title == lower(article.title)
             is_duplicate ==
                 \E n \in 1..Len(seen_titles) :
                     LET r == ratio(title, seen_titles[n])
                     IN 10 * r[1] >= 6 * r[2]
         IN IF is_duplicate
            THEN DedupLoopLoose(list, i + 1, unique, seen_titles)
            ELSE DedupLoopLoose(list, i + 1, Append(unique, article),
                                Append(seen_titles, title))

deduplicate_articles_loose(list) == DedupLoopLoose(list, 1, <<>>, <<>>)

deduplicate_articles(list) == DedupLoop(list, 1, <<>>, <<>>)

----------------------------------------------------------------------------
(* calculate_score *)

\* the value of datetime.now() while main scores, in seconds
Now == 400000

Raised(e) == [ok |-> FALSE, exc |-> e, value |-> 0]
Returned(v) == [ok |-> TRUE, exc |-> "none", value |-> v]

\* a slip: the first bucket closes at 24 hours
RecencyPointsWide(published) ==
    LET seconds_old == Now - published
    IN IF seconds_old <= 24 * 3600 THEN 40
       ELSE IF seconds_old <= 48 * 3600 THEN 20
       ELSE 10

\* hours_old <= h, for hours_old = (now - published).total_seconds() / 3600
RecencyPoints(published) ==
    LET seconds_old == Now - published
    IN IF seconds_old <= 12 * 3600 THEN 40
       ELSE IF seconds_old <= 24 * 3600 THEN 30
       ELSE IF seconds_old <= 48 * 3600 THEN 20
       ELSE 10

EngagementPoints(engagement) ==
    IF engagement > 500 THEN 40
    ELSE IF engagement > 200 THEN 30
    ELSE IF engagement > 100 THEN 20
    ELSE IF engagement > 50 THEN 10
    ELSE 0

SourcePoints(source) ==
    IF source \in high_quality_sources THEN 20
    ELSE IF source \in RSS_FEEDS_NEWS THEN 10
    ELSE 0

SummaryPoints(summary) ==
    IF Len(summary) > 0 /\ Len(summary) > 100 THEN 10 ELSE 0

\* article["published"] raises KeyError on a missing key, and
\* datetime.now() - None raises TypeError.  Every connector sets the keys
\* engagement and summary, so article.get finds them.
calculate_score(article) ==
    IF article.published.kind = "absent" THEN Raised("KeyError")
    ELSE IF article.published.kind = "None" THEN Raised("TypeError")
    ELSE Returned(  RecencyPoints(article.published.t)
                  + EngagementPoints(article.engagement)
                  + SourcePoints(article.source)
                  + SummaryPoints(article.summary))

----------------------------------------------------------------------------
(* all_articles.sort(key=lambda x: x["score"], reverse=True): a stable     *)
(* sort, records of equal score keep their order.                          *)

\* the place of list[i] after the sort
SortedPlace(list, i) ==
    1 + Cardinality({j \in 1..Len(list) :
                        \/ list[j].score > list[i].score
                        \/ list[j].score = list[i].score /\ j < i})

SortByScore(list) ==
    [n \in 1..Len(list) |->
        list[CHOOSE i \in 1..Len(list) : SortedPlace(list, i) = n]]

----------------------------------------------------------------------------
(* Grouping, as format_html_email and format_plain_text do it *)

\* by_category[cat]: the records of the category, in list order
Bucket(list, cat) == SelectSeq(list, LAMBDA a : a.category = cat)

\* the keys of by_category in insertion order: each category at its first
\* record
RECURSIVE KeyOrder(_, _, _)
KeyOrder(list, i, keys) ==
    IF i > Len(list) THEN keys
    ELSE IF \E n \in 1..Len(keys) : keys[n] = list[i].category
         THEN KeyOrder(list, i + 1, keys)
         ELSE KeyOrder(list, i + 1, Append(keys, list[i].category))

category_order ==
    <<CATEGORY_NEW_TECH, CATEGORY_RESEARCH, CATEGORY_INDUSTRY, CATEGORY_COMMUNITY>>

\* a slip: the cap is forgotten
RECURSIVE SectionsUncapped(_, _, _)
SectionsUncapped(list, order, i) ==
    IF i > Len(order) THEN <<>>
    ELSE IF Len(Bucket(list, order[i])) = 0
         THEN SectionsUncapped(list, order, i + 1)
    ELSE <<[category |-> order[i], items |-> Bucket(list, order[i])]>>
         \o SectionsUncapped(list, order, i + 1)

\* the sections emitted for the categories order[i..], skipping a category
\* that is no key of by_category; each section holds by_category[cat][:5]
RECURSIVE Sections(_, _, _)
Sections(list, order, i) ==
    IF i > Len(order) THEN <<>>
    ELSE IF Len(Bucket(list, order[i])) = 0 THEN Sections(list, order, i + 1)
    ELSE <<[category |-> order[i],
            items |-> Prefix(Bucket(list, order[i]), MaxPerCategory)]>>
         \o Sections(list, order, i + 1)

\* format_html_email: "for category in category_order"
format_html_email(list) == Sections(list, category_order, 1)

\* format_plain_text: "for category, cat_articles in by_category.items()"
format_plain_text(list) == Sections(list, KeyOrder(list, 1, <<>>), 1)

----------------------------------------------------------------------------
(* fetch_article_summary and fetch_one *)

\* A link is the sequence of the parts of its URL; "reddit.com" in link is
\* the presence of that host among them.  The empty link is <<>>.
Contains(link, host) == \E n \in 1..Len(link) : link[n] = host

\* What requests.get(url, timeout=5) meets: an exception (a network error or
\* the 5 s timeout), or a response with a status and a page.  A page has the
\* content of its meta description and og:description tags (<<>> when the tag
\* or its content is missing) and the <p> elements of its article, main or
\* body element.
Failure == [kind |-> "exception", status_code |-> 0,
            meta |-> <<>>, og |-> <<>>, paragraphs |-> <<>>]
Response(status, meta, og, paragraphs) ==
    [kind |-> "response", status_code |-> status,
     meta |-> meta, og |-> og, paragraphs |-> paragraphs]

\* the first of paragraphs[i..], up to paragraph number last, whose clean
\* text is longer than 100 characters, truncated; "" if there is none
RECURSIVE FirstLongParagraph(_, _, _)
FirstLongParagraph(paragraphs, i, last) ==
    IF i > Len(paragraphs) \/ i > last THEN <<>>
    ELSE LET t == clean_html(paragraphs[i])
         IN IF Len(t) > ParagraphMin THEN truncate_summary(t, DefaultMaxLength)
            ELSE FirstLongParagraph(paragraphs, i + 1, last)

fetch_article_summary(resp) ==
    IF resp.kind = "exception" THEN <<>>
    ELSE IF resp.status_code # 200 THEN <<>>
    ELSE IF Len(resp.meta) > 0 THEN clean_html(resp.meta)
    ELSE IF Len(resp.og) > 0 THEN clean_html(resp.og)
    ELSE FirstLongParagraph(resp.paragraphs, 1, ParagraphsTried)

\* what the requests of the enrichment tasks can meet
Responses ==
    {Failure,
     Response(404, Solid(120), <<>>, <<>>),
     Response(200, Solid(350), Prose(120), <<>>),
     Response(200, <<>>, Prose(120), <<>>),
     Response(200, <<>>, <<>>, <<Prose(20), Prose(400)>>),
     Response(200, <<>>, <<>>, <<Prose(20), Prose(100)>>)}

\* fetch_article_summary(article["link"]) for each response, computed once
Fetched == [resp \in Responses |-> fetch_article_summary(resp)]

\* a slip: the record is written whatever the fetch returned
fetch_one_always_writes(article, resp) ==
    IF Contains(article.link, "reddit.com")
       \/ Contains(article.link, "news.ycombinator.com")
    THEN article
    ELSE [article EXCEPT !.summary = Fetched[resp], !.needs_summary = FALSE]

\* fetch_one(article), with the response its request meets
fetch_one(article, resp) ==
    IF Contains(article.link, "reddit.com")
       \/ Contains(article.link, "news.ycombinator.com")
    THEN article
    ELSE LET summary == Fetched[resp]
         IN IF Len(summary) > 0
            THEN [article EXCEPT !.summary = summary, !.needs_summary = FALSE]
            ELSE article

----------------------------------------------------------------------------
(* Inputs of the pipeline: records as the connectors build them *)

MaxArticles == 2

NoScore == -1

Record(title, link, summary, source, category, published, engagement, needs) ==
    [id |-> 0, title |-> title, link |-> link, summary |-> summary,
     source |-> source, category |-> category, published |-> published,
     engagement |-> engagement, needs_summary |-> needs, score |-> NoScore]

\* fetch_hacker_news: a story with an external url, and one without
HNStory ==
    Record(<<"a", "b", "c", "d", "e">>, <<"https://", "example.com", "/post">>,
           <<>>, "Hacker News", CATEGORY_COMMUNITY, Datetime(Now - 3600), 600, TRUE)
HNSelfPost ==
    Record(<<"A", "b", "c", "x", "y">>,
           <<"https://", "news.ycombinator.com", "/item?id=1">>,
           <<>>, "Hacker News", CATEGORY_COMMUNITY, Datetime(Now - 7200), 60, TRUE)
\* fetch_reddit: a post whose url is its own permalink
RedditPost ==
    Record(<<"b", "a", "a", "a">>, <<"https://", "reddit.com", "/r/OpenAI/1">>,
           <<>>, "r/OpenAI", CATEGORY_NEW_TECH, Datetime(Now - 50000), 250, TRUE)
\* fetch_rss_feeds: an entry with a full summary, one with a summary of 50
\* to 99 characters, one with no link and no summary
BlogEntry ==
    Record(<<"a", "a", "b", "a">>, <<"https://", "openai.com", "/blog/x">>,
           Prose(149), "OpenAI Blog", CATEGORY_NEW_TECH, Datetime(Now - 90000),
           0, FALSE)
NewsEntry ==
    Record(<<"q", "r", "s">>, <<"https://", "techcrunch.com", "/x">>,
           Prose(59), "TechCrunch AI", CATEGORY_INDUSTRY, Datetime(Now - 3600),
           0, TRUE)
NoLinkEntry ==
    Record(<<"t", "u", "v">>, <<>>, <<>>, "Wired AI", CATEGORY_INDUSTRY,
           Datetime(Now - 3600), 0, TRUE)
\* fetch_arxiv: a paper with its abstract
Paper ==
    Record(<<"m", "n", "o">>, <<"http://", "arxiv.org", "/abs/1">>,
           Prose(119), "arXiv", CATEGORY_RESEARCH, Datetime(Now - 200000),
           0, FALSE)

Templates ==
    {HNStory, HNSelfPost, RedditPost, BlogEntry, NewsEntry, NoLinkEntry, Paper}

\* the records of a list, each with its place in all_articles as identity
WithIds(list) == [i \in 1..Len(list) |-> [list[i] EXCEPT !.id = i]]

----------------------------------------------------------------------------
(* enrich_summaries *)

\* needs_summary[:20]: the places of the first 20 records with needs_summary
\* set and a link
Wanting(list) ==
    {i \in 1..Len(list) : list[i].needs_summary /\ Len(list[i].link) > 0}
\* needs_summary without the slice
SelectedAll(list) == Wanting(list)
Selected(list) ==
    {i \in Wanting(list) :
        Cardinality({j \in Wanting(list) : j < i}) < BatchCap}

Finished == {"succeeded", "failed", "skipped"}
Unfinished == {"queued", "running"}
Enriching == {"enrich", "as_completed", "shutdown"}

Running == {i \in DOMAIN tasks : tasks[i] = "running"}
Queued == {i \in DOMAIN tasks : tasks[i] = "queued"}

\* the record that entered the pipeline at place i, wherever the sort put it
Article(i) == articles[CHOOSE n \in 1..Len(articles) : articles[n].id = i]

\* lines 513-516: nothing to enrich, enrich_summaries returns at once
EnrichNothing ==
    /\ pc = "enrich"
    /\ Wanting(articles) = {}
    /\ pc' = "score"
    /\ UNCHANGED <<articles, tasks, collected, deadline, exc, before,
                   unfinished, scoreIdx, digest, rerun, html, text,
                   call, returned>>

\* lines 530-532: every selected record is submitted to the executor, and
\* as_completed starts its 30 s
Dispatch ==
    /\ pc = "enrich"
    /\ Wanting(articles) # {}
    /\ tasks' = [i \in Selected(articles) |-> "queued"]
    /\ before' = articles
    /\ pc' = "as_completed"
    /\ UNCHANGED <<articles, collected, deadline, exc, unfinished,
                   scoreIdx, digest, rerun, html, text,
                   call, returned>>

\* an executor that starts a thread for every work item
TaskStartUnbounded(i) ==
    /\ i \in Queued
    /\ \A j \in Queued : i <= j
    /\ tasks' = [tasks EXCEPT ![i] = "running"]
    /\ UNCHANGED <<articles, pc, collected, deadline, exc, before,
                   unfinished, scoreIdx, digest, rerun, html, text,
                   call, returned>>

\* a worker thread takes the oldest work item of the executor's queue; the
\* executor has at most max_workers threads.  The workers run on their own:
\* where main stands does not matter to them.
TaskStart(i) ==
    /\ i \in Queued
    /\ \A j \in Queued : i <= j
    /\ Cardinality(Running) < MaxWorkers
    /\ tasks' = [tasks EXCEPT ![i] = "running"]
    /\ UNCHANGED <<articles, pc, collected, deadline, exc, before,
                   unfinished, scoreIdx, digest, rerun, html, text,
                   call, returned>>

\* lines 520-527: fetch_one runs to its end on record i
TaskFinish(i, resp) ==
    /\ i \in Running
    /\ LET skip == \/ Contains(articles[i].link, "reddit.com")
                   \/ Contains(articles[i].link, "news.ycombinator.com")
           result == fetch_one(articles[i], resp)
       IN /\ articles' = [articles EXCEPT ![i] = result]
          /\ tasks' = [tasks EXCEPT ![i] =
                          IF skip THEN "skipped"
                          ELSE IF Len(Fetched[resp]) > 0
                               THEN "succeeded" ELSE "failed"]
    /\ UNCHANGED <<pc, collected, deadline, exc, before, unfinished,
                   scoreIdx, digest, rerun, html, text,
                   call, returned>>

\* the 30 s of as_completed(futures, timeout=30) elapse
DeadlineElapses ==
    /\ pc = "as_completed"
    /\ ~deadline
    /\ deadline' = TRUE
    /\ unfinished' = {i \in DOMAIN tasks : tasks[i] \in Unfinished}
    /\ UNCHANGED <<articles, pc, tasks, collected, exc, before,
                   scoreIdx, digest, rerun, html, text,
                   call, returned>>

\* lines 532-536: as_completed yields a finished future and future.result()
\* returns
Collect(i) ==
    /\ pc = "as_completed"
    /\ i \in DOMAIN tasks
    /\ tasks[i] \in Finished
    /\ i \notin collected
    /\ collected' = collected \cup {i}
    /\ UNCHANGED <<articles, pc, tasks, deadline, exc, before, unfinished,
                   scoreIdx, digest, rerun, html, text,
                   call, returned>>

\* line 532: as_completed finds the deadline passed with futures it has not
\* yielded and raises TimeoutError, outside the try of lines 533-536
RaiseTimeout ==
    /\ pc = "as_completed"
    /\ deadline
    /\ collected # DOMAIN tasks
    /\ exc' = "TimeoutError"
    /\ pc' = "shutdown"
    /\ UNCHANGED <<articles, tasks, collected, deadline, before, unfinished,
                   scoreIdx, digest, rerun, html, text,
                   call, returned>>

\* enrich_summaries returning without waiting for its futures
EnrichReturnEarly ==
    /\ pc = "as_completed"
    /\ pc' = "score"
    /\ UNCHANGED <<articles, tasks, collected, deadline, exc, before,
                   unfinished, scoreIdx, digest, rerun, html, text,
                   call, returned>>

\* lines 532-538: every future was yielded; the with block ends and
\* enrich_summaries returns the list
EnrichReturn ==
    /\ pc = "as_completed"
    /\ collected = DOMAIN tasks
    /\ pc' = "score"
    /\ UNCHANGED <<articles, tasks, collected, deadline, exc, before,
                   unfinished, scoreIdx, digest, rerun, html, text,
                   call, returned>>

\* line 530: leaving the with block on the exception, the executor's
\* shutdown(wait=True) joins the workers, which first run every work item left;
\* then the exception leaves enrich_summaries and main, which has no handler
ShutdownJoin ==
    /\ pc = "shutdown"
    /\ \A i \in DOMAIN tasks : tasks[i] \in Finished
    /\ pc' = "crashed"
    /\ UNCHANGED <<articles, tasks, collected, deadline, exc, before,
                   unfinished, scoreIdx, digest, rerun, html, text,
                   call, returned>>

----------------------------------------------------------------------------
(* main, after the enrichment *)

\* lines 818-819: one turn of "for article in all_articles"
ScoreNext ==
    /\ pc = "score"
    /\ scoreIdx <= Len(articles)
    /\ LET r == calculate_score(articles[scoreIdx])
       IN IF r.ok
          THEN /\ articles' = [articles EXCEPT ![scoreIdx].score = r.value]
               /\ scoreIdx' = scoreIdx + 1
               /\ pc' = IF scoreIdx = Len(articles) THEN "sort" ELSE "score"
               /\ exc' = exc
          ELSE /\ exc' = r.exc
               /\ pc' = "crashed"
               /\ UNCHANGED <<articles, scoreIdx>>
    /\ UNCHANGED <<tasks, collected, deadline, before, unfinished,
                   digest, rerun, html, text,
                   call, returned>>

\* line 822
SortArticles ==
    /\ pc = "sort"
    /\ articles' = SortByScore(articles)
    /\ pc' = "dedupe"
    /\ UNCHANGED <<tasks, collected, deadline, exc, before, unfinished,
                   scoreIdx, digest, rerun, html, text,
                   call, returned>>

\* line 825
Deduplicate ==
    /\ pc = "dedupe"
    /\ digest' = deduplicate_articles(articles)
    /\ pc' = "format"
    /\ UNCHANGED <<articles, tasks, collected, deadline, exc, before,
                   unfinished, scoreIdx, rerun, html, text,
                   call, returned>>

\* lines 829-830
Format ==
    /\ pc = "format"
    /\ html' = format_html_email(digest)
    /\ text' = format_plain_text(digest)
    /\ pc' = "done"
    /\ UNCHANGED <<articles, tasks, collected, deadline, exc, before,
                   unfinished, scoreIdx, digest, rerun,
                   call, returned>>

----------------------------------------------------------------------------
(* The pipeline of main on the records of the connectors *)

\* all_articles holds 1 to MaxArticles records of the connectors
Init ==
    /\ \E n \in 1..MaxArticles : \E l \in [1..n -> Templates] :
          articles = WithIds(l)
    /\ pc = "enrich"
    /\ tasks = <<>>
    /\ collected = {}
    /\ deadline = FALSE
    /\ exc = "none"
    /\ before = articles
    /\ unfinished = {}
    /\ scoreIdx = 1
    /\ digest = <<>>
    /\ rerun = <<>>
    /\ html = <<>>
    /\ text = <<>>
    /\ call = NoCall
    /\ returned = <<>>

Next ==
    \/ EnrichNothing
    \/ Dispatch
    \/ \E i \in DOMAIN tasks : TaskStart(i)
    \/ \E i \in DOMAIN tasks : \E resp \in Responses : TaskFinish(i, resp)
    \/ DeadlineElapses
    \/ \E i \in DOMAIN tasks : Collect(i)
    \/ RaiseTimeout
    \/ EnrichReturn
    \/ ShutdownJoin
    \/ ScoreNext
    \/ SortArticles
    \/ Deduplicate
    \/ Format

Spec == Init /\ [][Next]_vars

----------------------------------------------------------------------------
(* calculate_score on its own: main's scoring loop on a list of one record, *)
(* the record drawn from the values around every bucket's edge, with and    *)
(* without a published value.                                               *)

ScoreAges ==
    {-60, 3600, 43200, 43201, 86400, 86401, 172800, 172801, 216000}
ScorePublished == {Datetime(Now - age) : age \in ScoreAges} \cup {None, Absent}
ScoreEngagements == {0, 10, 50, 51, 100, 101, 200, 201, 500, 501, 600}
ScoreSources ==
    {"OpenAI Blog", "arXiv", "MIT Tech Review", "TechCrunch AI",
     "Hacker News", "r/OpenAI"}
ScoreSummaries == {<<>>, Solid(100), Solid(101), Solid(150)}

InitScore ==
    /\ \E summary \in ScoreSummaries, source \in ScoreSources,
          published \in ScorePublished, engagement \in ScoreEngagements :
          articles = WithIds(<<Record(<<"a">>,
                                      <<"https://", "example.com", "/post">>,
                                      summary, source, CATEGORY_INDUSTRY,
                                      published, engagement,
                                      Len(summary) < 100)>>)
    /\ pc = "score"
    /\ tasks = <<>>
    /\ collected = {}
    /\ deadline = FALSE
    /\ exc = "none"
    /\ before = articles
    /\ unfinished = {}
    /\ scoreIdx = 1
    /\ digest = <<>>
    /\ rerun = <<>>
    /\ html = <<>>
    /\ text = <<>>
    /\ call = NoCall
    /\ returned = <<>>

NextScore == ScoreNext

SpecScore == InitScore /\ [][NextScore]_vars

----------------------------------------------------------------------------
(* deduplicate_articles on its own: every list of up to MaxDedupLen records *)
(* with titles of TitleSamples, deduplicated and then deduplicated again.   *)

MaxDedupLen == 3

\* Titles: an empty one; two that differ only in case; a pair of ratio
\* exactly 0.6 (abcde, abcxy); a pair whose ratio is 0.75 one way round and
\* 0.5 the other (aaba, baaa); one unlike the others.
TitleSamples ==
    {<<>>, <<"q">>, <<"a", "b", "c", "d", "e">>, <<"A", "B", "c", "D", "E">>,
     <<"a", "b", "c", "x", "y">>, <<"a", "a", "b", "a">>, <<"b", "a", "a", "a">>}

Titled(title) ==
    Record(title, <<"https://", "example.com", "/post">>, <<>>, "Hacker News",
           CATEGORY_COMMUNITY, Datetime(Now - 3600), 600, TRUE)

\* the scored records with the titles l, in that order
TitledList(l) ==
    WithIds([i \in 1..Len(l) |-> [Titled(l[i]) EXCEPT !.score = 80]])

\* deduplicate_articles called on the list it returned
Rerun ==
    /\ pc = "format"
    /\ rerun' = deduplicate_articles(digest)
    /\ pc' = "rerun"
    /\ UNCHANGED <<articles, tasks, collected, deadline, exc, before,
                   unfinished, scoreIdx, digest, html, text,
                   call, returned>>

InitDedup ==
    /\ \E n \in 0..MaxDedupLen : \E l \in [1..n -> TitleSamples] :
          articles = TitledList(l)
    /\ pc = "dedupe"
    /\ tasks = <<>>
    /\ collected = {}
    /\ deadline = FALSE
    /\ exc = "none"
    /\ before = articles
    /\ unfinished = {}
    /\ scoreIdx = Len(articles) + 1
    /\ digest = <<>>
    /\ rerun = <<>>
    /\ html = <<>>
    /\ text = <<>>
    /\ call = NoCall
    /\ returned = <<>>

NextDedup == Deduplicate \/ Rerun

SpecDedup == InitDedup /\ [][NextDedup]_vars

----------------------------------------------------------------------------
(* Sorting and grouping on their own: main from line 822 on, on scored      *)
(* records whose titles have nothing in common.                             *)

MaxGroupLen == 4
MaxCapLen == 8

Letters ==
    <<"a", "b", "c", "d", "e", "f", "g", "h", "i", "j", "k", "l", "m", "n">>

Scored(category, score) ==
    [Record(<<>>, <<"https://", "example.com", "/post">>, <<>>, "Hacker News",
            category, Datetime(Now - 3600), 0, FALSE) EXCEPT !.score = score]

\* each record gets its place as identity and a title of its own
Entitled(list) ==
    [i \in 1..Len(list) |-> [list[i] EXCEPT !.id = i, !.title = <<Letters[i]>>]]

\* short lists over every category, and lists long enough to pass the cap of
\* a category
MixedRecords == {Scored(c, v) : c \in Categories, v \in {10, 20}}
CapRecords ==
    {Scored(CATEGORY_RESEARCH, 10), Scored(CATEGORY_RESEARCH, 20),
     Scored(CATEGORY_NEW_TECH, 10)}

InitGroup ==
    /\ \/ \E n \in 1..MaxGroupLen : \E l \in [1..n -> MixedRecords] :
             articles = Entitled(l)
       \/ \E n \in 1..MaxCapLen : \E l \in [1..n -> CapRecords] :
             articles = Entitled(l)
    /\ pc = "sort"
    /\ tasks = <<>>
    /\ collected = {}
    /\ deadline = FALSE
    /\ exc = "none"
    /\ before = articles
    /\ unfinished = {}
    /\ scoreIdx = Len(articles) + 1
    /\ digest = <<>>
    /\ rerun = <<>>
    /\ html = <<>>
    /\ text = <<>>
    /\ call = NoCall
    /\ returned = <<>>

NextGroup == SortArticles \/ Deduplicate \/ Format

SpecGroup == InitGroup /\ [][NextGroup]_vars

----------------------------------------------------------------------------
(* truncate_summary on its own: one call on every text of up to MaxTextLen  *)
(* characters over letters, blanks and the three sentence terminators, with *)
(* every max_length from 0 to MaxMaxLength.                                 *)

MaxTextLen == 6
MaxMaxLength == 5
TextChars == {"a", " ", ".", "?", "!"}

\* the call runs and returns
Truncate ==
    /\ pc = "truncate"
    /\ returned' = <<truncate_summary(call.text, call.max_length)>>
    /\ pc' = "truncated"
    /\ UNCHANGED <<articles, tasks, collected, deadline, exc, before,
                   unfinished, scoreIdx, digest, rerun, html, text, call>>

InitTrunc ==
    /\ \E n \in 0..MaxTextLen : \E t \in [1..n -> TextChars] :
          \E max_length \in 0..MaxMaxLength : call = Call(t, max_length)
    /\ returned = <<>>
    /\ pc = "truncate"
    /\ articles = <<>>
    /\ tasks = <<>>
    /\ collected = {}
    /\ deadline = FALSE
    /\ exc = "none"
    /\ before = <<>>
    /\ unfinished = {}
    /\ scoreIdx = 1
    /\ digest = <<>>
    /\ rerun = <<>>
    /\ html = <<>>
    /\ text = <<>>

NextTrunc == Truncate

SpecTrunc == InitTrunc /\ [][NextTrunc]_vars

----------------------------------------------------------------------------
(* The thread pool on its own: enrich_summaries on up to MaxPoolLen records *)
(* that all want a summary, more of them than the executor has workers,     *)
(* each request failing or finding an og:description, all of them answered *)
(* within the 30 s (the executions with the deadline are those of Spec).    *)

MaxPoolLen == 6

PoolResponses ==
    {resp \in Responses :
        \/ resp.kind = "exception"
        \/ resp.status_code = 200 /\ Len(resp.meta) = 0 /\ Len(resp.og) > 0}

\* stories with an external link, one of them (or none) a Reddit post
InitPool ==
    /\ \E n \in 1..MaxPoolLen : \E r \in 0..n :
          articles = WithIds([k \in 1..n |->
                                 IF k = r THEN RedditPost ELSE HNStory])
    /\ pc = "enrich"
    /\ tasks = <<>>
    /\ collected = {}
    /\ deadline = FALSE
    /\ exc = "none"
    /\ before = articles
    /\ unfinished = {}
    /\ scoreIdx = 1
    /\ digest = <<>>
    /\ rerun = <<>>
    /\ html = <<>>
    /\ text = <<>>
    /\ call = NoCall
    /\ returned = <<>>

NextPool ==
    \/ Dispatch
    \/ \E i \in DOMAIN tasks : TaskStart(i)
    \/ \E i \in DOMAIN tasks : \E resp \in PoolResponses : TaskFinish(i, resp)
    \/ \E i \in DOMAIN tasks : Collect(i)
    \/ EnrichReturn

SpecPool == InitPool /\ [][NextPool]_vars

----------------------------------------------------------------------------
(* The batch of enrich_summaries on its own: lists of about BatchCap        *)
(* records, up to MaxBatchLen, so that the slice [:20] leaves records out.  *)
(* The pool is followed on one schedule, a task starting when no other runs *)
(* and main has collected what finished, every request answered within the  *)
(* 30 s; tasks write their own record only, whatever the schedule (checked  *)
(* under SpecPool), and the executions with the deadline are those of Spec. *)

MaxBatchLen == 22

\* self posts of Reddit and Hacker News with, at place a, a record that
\* is not theirs, and a story with an external link at the end
BatchList(n, a, special) ==
    WithIds([k \in 1..n |->
                IF k = n THEN HNStory
                ELSE IF k = a THEN special
                ELSE IF k % 2 = 1 THEN RedditPost ELSE HNSelfPost])

InitBatch ==
    /\ \E n \in (BatchCap - 1)..MaxBatchLen : \E a \in 1..(n - 1) :
          \E special \in {NoLinkEntry, BlogEntry, HNStory} :
              articles = BatchList(n, a, special)
    /\ pc = "enrich"
    /\ tasks = <<>>
    /\ collected = {}
    /\ deadline = FALSE
    /\ exc = "none"
    /\ before = articles
    /\ unfinished = {}
    /\ scoreIdx = 1
    /\ digest = <<>>
    /\ rerun = <<>>
    /\ html = <<>>
    /\ text = <<>>
    /\ call = NoCall
    /\ returned = <<>>

\* no task runs, and main has collected every finished one
InTurn ==
    /\ Running = {}
    /\ \A i \in DOMAIN tasks : tasks[i] \in Finished => i \in collected

NextBatch ==
    \/ Dispatch
    \/ \E i \in DOMAIN tasks : InTurn /\ TaskStart(i)
    \/ \E i \in DOMAIN tasks : \E resp \in PoolResponses : TaskFinish(i, resp)
    \/ \E i \in DOMAIN tasks : Collect(i)
    \/ EnrichReturn

SpecBatch == InitBatch /\ [][NextBatch]_vars

----------------------------------------------------------------------------
(* Properties of the enrichment (checked under Spec) *)

SameSummary(i) ==
    /\ Article(i).summary = before[i].summary
    /\ Article(i).needs_summary = before[i].needs_summary

\* C1: when the 30 s deadline elapses while a dispatched task has not
\* finished, enrich_summaries still returns normally: no exception reaches
\* main, which goes on to score, sort, deduplicate and group.
C1_DeadlineRaisesNothing ==
    unfinished # {} => (exc = "none" /\ pc # "crashed")

\* C2: a record whose task was queued or running when the deadline elapsed
\* has, when control leaves enrich_summaries, the summary and needs_summary
\* it had before the call.
C2_UnfinishedTaskWritesNothing ==
    pc \notin Enriching => \A i \in unfinished : SameSummary(i)

\* C3: a record whose fetch failed keeps its summary and needs_summary, and
\* the failure is local: when control leaves enrich_summaries every
\* dispatched task has run, whatever the others met.
C3_FailedFetchIsLocal ==
    /\ \A i \in DOMAIN tasks : tasks[i] = "failed" => SameSummary(i)
    /\ pc \notin Enriching => \A i \in DOMAIN tasks : tasks[i] \in Finished

\* a record's fetch failed, a record dispatched after it was enriched, and
\* main went on
C3_Witness ==
    /\ pc = "done"
    /\ \E i, j \in DOMAIN tasks :
          /\ i < j
          /\ tasks[i] = "failed"
          /\ tasks[j] = "succeeded"
          /\ Len(before[i].summary) > 0
          /\ Article(j).summary # before[j].summary

\* C4: the summary a successful task writes is within the 300-character
\* budget and needs_summary is cleared; so every record handed to the
\* renderer has a summary that is empty or within the budget.
C4_EnrichedSummaryWithinBudget ==
    /\ \A i \in DOMAIN tasks :
          tasks[i] = "succeeded" =>
              /\ Len(Article(i).summary) <= SummaryBudget
              /\ ~Article(i).needs_summary
    /\ pc = "done" =>
          \A n \in 1..Len(html) : \A m \in 1..Len(html[n].items) :
              Len(html[n].items[m].summary) <= SummaryBudget

----------------------------------------------------------------------------
(* Properties of deduplicate_articles (checked under SpecDedup) *)

\* the ratio of the lower-cased titles of articles[i], the candidate, and
\* articles[j] is above 0.6
C5_Over(i, j) ==
    LET r == ratio(lower(articles[i].title), lower(articles[j].title))
    IN 10 * r[1] > 6 * r[2]

\* K is the set of places kept: a place is kept iff its title is not over
\* the threshold against any place kept before it
C5_IsKept(K) ==
    \A i \in 1..Len(articles) :
        i \in K <=> \A j \in K : j < i => ~C5_Over(i, j)

\* the records of articles at the places K, in list order
C5_Pick(K) ==
    [n \in 1..Cardinality(K) |->
        articles[CHOOSE i \in K : Cardinality({j \in K : j <= i}) = n]]

\* C5: deduplicate_articles keeps a candidate iff the ratio of its
\* lower-cased title to every title kept before it is <= 0.6; the result is
\* the kept records, unchanged and in input order; of two records with a
\* ratio > 0.6 only the first survives, with a ratio <= 0.6 both do.
C5_KeepsFirstOfSimilar ==
    pc # "dedupe" =>
        /\ \E K \in SUBSET (1..Len(articles)) :
              C5_IsKept(K) /\ digest = C5_Pick(K)
        /\ Len(articles) = 2 =>
              digest = IF C5_Over(2, 1) THEN <<articles[1]>> ELSE articles

\* of three records, two whose ratio is exactly 0.6 both survive and the
\* third is dropped
C5_Witness ==
    /\ pc = "format"
    /\ Len(articles) = 3
    /\ Len(digest) = 2
    /\ LET r == ratio(lower(digest[2].title), lower(digest[1].title))
       IN 10 * r[1] = 6 * r[2]

\* C6: deduplicate_articles(deduplicate_articles(X)) = deduplicate_articles(X)
C6_DedupIdempotent == pc = "rerun" => rerun = digest

\* a second pass was made over a result that dropped a record and that keeps
\* two records which are over the threshold in the other argument order
C6_Witness ==
    /\ pc = "rerun"
    /\ Len(digest) < Len(articles)
    /\ \E n, m \in 1..Len(digest) :
          /\ n < m
          /\ IsSimilar(lower(digest[n].title), lower(digest[m].title))
          /\ ~IsSimilar(lower(digest[m].title), lower(digest[n].title))

----------------------------------------------------------------------------
(* Properties of the grouping (checked under SpecGroup) *)

\* the surviving records of a category
C7_Members(c) == {digest[n] : n \in {m \in 1..Len(digest) : digest[m].category = c}}

\* x ranks before y: a higher score, or the same score and inserted earlier
C7_Before(x, y) == x.score > y.score \/ (x.score = y.score /\ x.id < y.id)

\* the 5 (or fewer) first-ranked records of a category
C7_Top(c) ==
    {x \in C7_Members(c) :
        Cardinality({y \in C7_Members(c) : C7_Before(y, x)}) < 5}

\* sections holds exactly one section per category that has records, with
\* the top records of the category in rank order
C7_Grouped(sections) ==
    \A c \in Categories :
        LET at == {n \in 1..Len(sections) : sections[n].category = c}
        IN IF C7_Members(c) = {} THEN at = {}
           ELSE /\ Cardinality(at) = 1
                /\ \A n \in at :
                      LET items == sections[n].items
                      IN /\ Len(items) = Cardinality(C7_Top(c))
                         /\ Len(items) <= 5
                         /\ {items[m] : m \in 1..Len(items)} = C7_Top(c)
                         /\ \A m, k \in 1..Len(items) :
                               m < k => C7_Before(items[m], items[k])
                         /\ Cardinality(C7_Members(c)) = 8 => Len(items) = 5

\* C7: grouping yields for each category at most 5 records, the highest
\* scored surviving ones, in descending score order with equal scores in
\* insertion order; of 8 surviving Research records exactly 5 are emitted.
C7_TopFivePerCategory ==
    pc = "done" => C7_Grouped(html) /\ C7_Grouped(text)

\* 8 Research records survive, inserted out of score order and with equal
\* scores among them, and 5 are emitted
C7_Witness ==
    /\ pc = "done"
    /\ Cardinality(C7_Members(CATEGORY_RESEARCH)) = 8
    /\ before # articles
    /\ \E n \in 1..Len(html) :
          /\ html[n].category = CATEGORY_RESEARCH
          /\ Len(html[n].items) = 5
          /\ html[n].items[1].score > html[n].items[5].score
          /\ html[n].items[1].score = html[n].items[2].score

\* the categories of the sections, in the order emitted
CategoriesOf(sections) == [n \in 1..Len(sections) |-> sections[n].category]

\* the categories that have records, in the fixed order
C8_Expected ==
    SelectSeq(category_order, LAMBDA c : C7_Members(c) # {})

\* C8: both renderings emit the categories in the order New Technology,
\* Research, Industry & Macro, Community Highlights, whatever the order of
\* the records, and emit no category without records.
C8_FixedCategoryOrder ==
    pc = "done" =>
        /\ CategoriesOf(html) = C8_Expected
        /\ CategoriesOf(text) = C8_Expected

----------------------------------------------------------------------------
(* Properties of calculate_score (checked under SpecScore) *)

C9_Recency(seconds_old) ==
    IF seconds_old <= 12 * 3600 THEN 40
    ELSE IF seconds_old <= 24 * 3600 THEN 30
    ELSE IF seconds_old <= 48 * 3600 THEN 20
    ELSE 10

C9_Engagement(e) ==
    IF e > 500 THEN 40 ELSE IF e > 200 THEN 30 ELSE IF e > 100 THEN 20
    ELSE IF e > 50 THEN 10 ELSE 0

C9_Source(src) ==
    IF src \in high_quality_sources THEN 20
    ELSE IF src \in RSS_FEEDS_NEWS THEN 10 ELSE 0

C9_Summary(summary) == IF Len(summary) > 100 THEN 10 ELSE 0

\* record A: 1 hour old, engagement 600, high-quality source, 150 characters
C9_IsA(a) ==
    /\ a.published = Datetime(Now - 3600)
    /\ a.engagement = 600
    /\ a.source = "OpenAI Blog"
    /\ Len(a.summary) = 150

\* record B: 60 hours old, engagement 10, unlisted source, no summary
C9_IsB(a) ==
    /\ a.published = Datetime(Now - 60 * 3600)
    /\ a.engagement = 10
    /\ a.source = "Hacker News"
    /\ Len(a.summary) = 0

\* C9: for a record with a publication time the score is the sum of the
\* recency, engagement, source and summary points, between 10 and 110;
\* record A scores 110 and record B scores 10.
C9_ScoreIsSumOfBuckets ==
    \A n \in 1..Len(articles) :
        LET a == articles[n]
        IN a.published.kind = "datetime" =>
              /\ pc # "crashed"
              /\ n < scoreIdx =>
                    /\ a.score = C9_Recency(Now - a.published.t)
                                 + C9_Engagement(a.engagement)
                                 + C9_Source(a.source)
                                 + C9_Summary(a.summary)
                    /\ a.score >= 10
                    /\ a.score <= 110
                    /\ C9_IsA(a) => a.score = 110
                    /\ C9_IsB(a) => a.score = 10

\* record A has been scored
C9_Witness ==
    /\ pc = "sort"
    /\ C9_IsA(articles[1])
    /\ articles[1].score = 110

\* C10: a record that reaches the scorer with no published value (missing
\* or None) is scored as if published now: calculate_score does not fail
\* and the record gets the 40 points of the first recency bucket.
C10_MissingPublishedScoresAsNow ==
    \A n \in 1..Len(articles) :
        LET a == articles[n]
        IN (a.published.kind # "datetime" /\ pc # "score") =>
              /\ pc # "crashed"
              /\ a.score = 40 + C9_Engagement(a.engagement)
                              + C9_Source(a.source) + C9_Summary(a.summary)

----------------------------------------------------------------------------
(* Properties of truncate_summary (checked under SpecTrunc) *)

Terminators == {".", "?", "!"}

\* C11: truncate_summary(s, n) is s whenever len(s) <= n; otherwise the
\* result is no longer than n whenever the first n characters of s hold a
\* blank, and no longer than n + 3 (the ellipsis) in every case.
C11_TruncationBounds ==
    \A r \in {returned[k] : k \in DOMAIN returned} :
        LET s == call.text
            n == call.max_length
        IN /\ Len(s) <= n => r = s
           /\ Len(s) > n =>
                 /\ (\E k \in 1..n : s[k] = " ") => Len(r) <= n
                 /\ Len(r) <= n + Len(Ellipsis)

\* the 0-based offsets below n at which s holds a sentence terminator
TerminatorOffsets(s, n) ==
    {p \in 0..(Min(n, Len(s)) - 1) : s[p + 1] \in Terminators}

\* C12 as stated: for a text s longer than n with a sentence terminator at
\* offset p, n * 0.5 < p <= n, the result is s[0..p], of p + 1 characters.
C12_CutsAtAnyTerminator ==
    \A r \in {returned[k] : k \in DOMAIN returned} :
        LET s == call.text
            n == call.max_length
        IN Len(s) > n =>
              \A p \in 0..n :
                  (s[p + 1] \in Terminators /\ 2 * p > n)
                      => r = SubSeq(s, 1, p + 1)

\* C12 amended: for a text s longer than n whose last sentence terminator
\* within its first n characters is at offset p, p > n * 0.5, the result
\* is s[0..p], of p + 1 characters, without an ellipsis.
C12_CutsAtLastTerminatorInPrefix ==
    \A r \in {returned[k] : k \in DOMAIN returned} :
        LET s == call.text
            n == call.max_length
        IN Len(s) > n =>
              \A p \in TerminatorOffsets(s, n) :
                  ((\A q \in TerminatorOffsets(s, n) : q <= p) /\ 2 * p > n)
                      => /\ r = SubSeq(s, 1, p + 1)
                         /\ Len(r) = p + 1

\* a call returned whose text is longer than n and has two terminators in
\* its first n characters, the last of them beyond n * 0.5 and before the
\* end of the prefix
C12_Witness ==
    /\ returned # <<>>
    /\ Len(call.text) > call.max_length
    /\ \E p, q \in TerminatorOffsets(call.text, call.max_length) :
          /\ q < p
          /\ \A o \in TerminatorOffsets(call.text, call.max_length) : o <= p
          /\ 2 * p > call.max_length
          /\ p + 1 < call.max_length

----------------------------------------------------------------------------
(* Order of enrichment and scoring (checked under Spec) *)

Ids == {articles[n].id : n \in 1..Len(articles)}
AllScored == \A n \in 1..Len(articles) : articles[n].score # NoScore
NoTaskCanRun == \A i \in DOMAIN tasks : tasks[i] \in Finished

\* main is at the scoring loop or beyond it
C13_ScoringReached ==
    \/ pc \in {"score", "sort", "dedupe", "format", "done"}
    \/ \E n \in 1..Len(articles) : articles[n].score # NoScore
    \/ exc \in {"KeyError", "TypeError"}

\* what holds of every state
C13_State ==
    /\ C13_ScoringReached => NoTaskCanRun
    /\ pc \in {"sort", "dedupe", "format", "done"} =>
          AllScored /\ scoreIdx = Len(articles) + 1
    /\ pc \in Enriching => digest = <<>> /\ html = <<>> /\ text = <<>>

\* what holds of every step
C13_Step ==
    /\ C13_ScoringReached =>
          /\ tasks' = tasks
          /\ \A i \in Ids : /\ Article(i)'.summary = Article(i).summary
                            /\ Article(i)'.needs_summary
                                  = Article(i).needs_summary
    /\ \A i \in Ids :
          Article(i)'.score # Article(i).score =>
              /\ pc = "score"
              /\ Article(i).score = NoScore
              /\ articles[scoreIdx].id = i
              /\ scoreIdx' = scoreIdx + 1
    /\ scoreIdx' # scoreIdx =>
          /\ pc = "score"
          /\ scoreIdx' = scoreIdx + 1
          /\ articles'[scoreIdx].score # NoScore
    /\ (digest' # digest \/ html' # html \/ text' # text) =>
          AllScored /\ pc \in {"dedupe", "format"}

\* C13: scoring starts only once enrichment has ended with no task able to
\* run; from then on no worker writes summary or needs_summary; each
\* record's score is assigned once, by the turn of the scoring loop that
\* stands on it, after enrichment and before deduplication and grouping.
C13_ScoringAfterEnrichment == [](C13_State) /\ [][C13_Step]_vars

\* every record is scored, after a worker enriched one of at least two
C13_Witness ==
    /\ pc = "sort"
    /\ AllScored
    /\ Len(articles) >= 2
    /\ \E i \in DOMAIN tasks : tasks[i] = "succeeded" /\ ~SameSummary(i)

----------------------------------------------------------------------------
(* Properties of the thread pool (checked under SpecPool) *)

\* the fields of a record other than the two a task may write
Untouched(r) == [r EXCEPT !.summary = <<>>, !.needs_summary = FALSE]

\* what holds of every state: at most 5 tasks in flight, and every task is
\* the task of one record of the list
C14_State ==
    /\ Cardinality(Running) <= MaxWorkers
    /\ DOMAIN tasks \subseteq 1..Len(articles)

\* what holds of every step: a record changes only while its own task is in
\* flight and finishing, only in summary and needs_summary, and no other
\* record changes in that step
C14_Step ==
    \A n \in 1..Len(articles) :
        articles'[n] # articles[n] =>
            /\ n \in Running
            /\ tasks'[n] \in Finished
            /\ Untouched(articles'[n]) = Untouched(articles[n])
            /\ \A m \in 1..Len(articles) : m # n => articles'[m] = articles[m]

\* C14: during the enrichment at most 5 fetch tasks are in flight, each
\* record has at most one task, and a task writes only the summary and
\* needs_summary of its own record, in whatever order the tasks finish.
C14_PoolOwnership == [](C14_State) /\ [][C14_Step]_vars

\* five tasks in flight, a sixth record already written by its task
C14_Witness ==
    /\ Cardinality(Running) = MaxWorkers
    /\ Len(articles) > MaxWorkers
    /\ \E i \in DOMAIN tasks : tasks[i] = "succeeded" /\ ~SameSummary(i)

----------------------------------------------------------------------------
(* Properties of the batch (checked under SpecBatch) *)

\* the places of list[i..] whose record has needs_summary set and a link
\* that is not empty, in list order
RECURSIVE C15_Eligible(_, _)
C15_Eligible(list, i) ==
    IF i > Len(list) THEN <<>>
    ELSE IF list[i].needs_summary /\ list[i].link # <<>>
         THEN <<i>> \o C15_Eligible(list, i + 1)
         ELSE C15_Eligible(list, i + 1)

\* the first 20 of them
C15_Chosen(list) ==
    LET eligible == C15_Eligible(list, 1)
    IN {eligible[k] : k \in 1..Min(BatchCap, Len(eligible))}

C15_Skipped(r) ==
    \/ Contains(r.link, "reddit.com")
    \/ Contains(r.link, "news.ycombinator.com")

\* C15: enrich_summaries dispatches the first 20, in list order, of the
\* records with needs_summary set and a link, and no more; every other
\* record, and every dispatched record with a link to reddit.com or
\* news.ycombinator.com, keeps all its fields; the list holds the same
\* records in the same order when enrich_summaries is left.
C15_BatchFrame ==
    LET chosen == C15_Chosen(before)
    IN /\ pc # "enrich" =>
             /\ DOMAIN tasks = chosen
             /\ Cardinality(DOMAIN tasks) <= BatchCap
       /\ Len(articles) = Len(before)
       /\ \A n \in 1..Len(articles) :
             /\ Untouched(articles[n]) = Untouched(before[n])
             /\ (n \notin chosen \/ C15_Skipped(before[n]))
                   => articles[n] = before[n]

\* enrich_summaries returned, having dispatched 20 records, one of them
\* enriched, and left out a record that wants a summary and has a link to
\* another site
C15_Witness ==
    /\ pc = "score"
    /\ Cardinality(DOMAIN tasks) = BatchCap
    /\ \E i \in DOMAIN tasks : tasks[i] = "succeeded" /\ ~SameSummary(i)
    /\ \E i \in DOMAIN tasks : tasks[i] = "skipped"
    /\ \E n \in 1..Len(articles) :
          /\ n \notin DOMAIN tasks
          /\ before[n].needs_summary
          /\ before[n].link # <<>>
          /\ ~C15_Skipped(before[n])

====
